---- MODULE Spec2Model ----
(***************************************************************************)
(* Book Hub backend (Express + Mongoose): the Catalog Store, the           *)
(* Engagement Aggregator (recordRead / recordRating) and the Access Gate   *)
(* (protect / adminOnly), as a state machine over the two collections,      *)
(* with registration, and the frontend's filter slice and HomePage fetch.   *)
(*                                                                         *)
(* Every await of a handler is a suspension point, so a handler is a       *)
(* sequence of steps (pc) and the steps of different requests interleave.  *)
(* One storage call (findById, findByIdAndUpdate, save, ...) is atomic on  *)
(* the single document it touches, as MongoDB guarantees.                  *)
(*                                                                         *)
(* Ratings are held in tenths (4.2 is 42): the stored rating is always a   *)
(* multiple of 0.1 after Math.round(x * 10) / 10, and the request bodies   *)
(* enumerated below carry JSON numbers with at most one decimal.           *)
(***************************************************************************)
EXTENDS Integers, Sequences, FiniteSets, TLC

\* ------------------------------------------------------------------ bounds

\* Request slots: how many requests can be in flight at once.
NumProcs == 3
\* Requests accepted in one behaviour of the concurrent specifications.
MaxRequests == 4
\* Requests accepted in one behaviour of the sequential rating specification.
MaxSeqRatings == 6
\* Requests accepted in one behaviour of the whole-catalog specification.
MaxOps == 3
\* Requests accepted in one behaviour of the Access Gate specification.
MaxGateRequests == 2
\* Books an admin may create on top of the initial ones.
MaxCreated == 1
\* List requests one client sends in one behaviour of the list specification.
MaxListRequests == 2
\* GET /books requests HomePage sends in one behaviour of the fetch specification.
MaxFetches == 3
\* Users that may register on top of the seeded ones.
MaxRegistered == 2

Procs == 1..NumProcs

\* --------------------------------------------------------------- constants

\* seed.js: the admin is created first, the regular user second.
SeedAdminId == 1
SeedUserId == 2
\* seed.js, 'The Great Gatsby': rating 4.2, ratingCount 1203, readCount 850.
SeedRating == 42
SeedRatingCount == 1203
SeedReadCount == 850
\* Book.js: rating: { min: 0, max: 5 }, in tenths.
RatingMin == 0
RatingMax == 50
\* books.js: body('rating').isFloat({ min: 1, max: 5 }), in tenths.
RateMin == 10
RateMax == 50
\* books.js: page = 1, limit = 12; Math.min(50, ...).
DefaultPage == 1
DefaultLimit == 12
LimitCap == 50

\* Identifiers (ObjectIds) are never reused: a counter hands out fresh ones.
BookIds == 1..(2 + MaxCreated)
UserIds == 1..(2 + MaxRegistered)

\* ------------------------------------------------------------------- state

VARIABLES
    books,      \* the Book collection: id -> [rating, ratingCount, readCount]
    users,      \* the User collection: id -> [email, role, readBooks]
    issued,     \* tokens handed out by login: user id -> role in the login response
    nextBookId, \* the next fresh book identifier
    nextUserId, \* the next fresh user identifier
    req,        \* the request slots: each in-flight request and its position
    nreq,       \* requests accepted so far
    okReads,    \* history: per book, recordRead calls answered 200
    okRates,    \* history: per book, recordRating calls answered 200
    hist,       \* history: per book, the ratings answered 200, in order
    conc,       \* history: per book, a read (rating) call started while another was in flight
    pages,      \* history: the list responses one client received, in order
    deleted,    \* history: the books whose DELETE was answered 200
    filters,    \* frontend: the state of the filters slice of the Redux store
    timer,      \* frontend: the pending setTimeout of HomePage's effect, with its fetchBooks
    fetching,   \* frontend: the GET /books requests HomePage has sent and not yet seen answered
    home        \* frontend: HomePage's state (data, loading, error), what the page shows

vars == <<books, users, issued, nextBookId, nextUserId, req, nreq,
          okReads, okRates, hist, conc, pages, deleted,
          filters, timer, fetching, home>>

store == <<books, users, issued, nextBookId, nextUserId>>
ghost == <<okReads, okRates, hist, conc, pages, deleted>>
front == <<filters, timer, fetching, home>>

\* ----------------------------------------------------------------- records

Roles == {"user", "admin"}

\* bookSchema.genre enum: the sixteen genres.
Genres ==
    {"Fiction", "Non-Fiction", "Science Fiction", "Fantasy", "Mystery", "Thriller",
     "Romance", "Horror", "Biography", "History", "Self-Help", "Science",
     "Technology", "Children", "Young Adult", "Other"}

\* A string is the sequence of its characters.
AuthorA == <<"a">>

\* A document of the Book collection: the engagement fields of bookSchema, and
\* the fields the list query filters and sorts on. publishedDate is optional
\* (a set: empty when the document has none); dates are day numbers.
BookDoc(rating, ratingCount, readCount) ==
    [rating |-> rating, ratingCount |-> ratingCount, readCount |-> readCount,
     genre |-> "Fiction", author |-> AuthorA, publishedDate |-> {}, createdAt |-> 0]

\* bookSchema defaults: rating 0, ratingCount 0, readCount 0.
DefaultBook == BookDoc(0, 0, 0)

\* seed.js, the first seeded book.
SeedBook == BookDoc(SeedRating, SeedRatingCount, SeedReadCount)

\* seed.js: the e-mail addresses of the admin and of the regular user, and an
\* address no seeded user has.
AdminEmail == "admin@bookhub.com"
UserEmail == "user@bookhub.com"
NewEmail == "new@bookhub.com"

\* A document of the User collection.
UserDoc(email, role) == [email |-> email, role |-> role, readBooks |-> {}]

\* seed.js: User.create of the admin and of the regular user.
SeedUsers ==
    [u \in {SeedAdminId, SeedUserId} |->
        IF u = SeedAdminId THEN UserDoc(AdminEmail, "admin") ELSE UserDoc(UserEmail, "user")]

\* No token has been handed out yet; after both seeded users logged in.
NoneIssued == [u \in UserIds |-> "none"]
SeedIssued == [u \in UserIds |-> IF u \in DOMAIN SeedUsers THEN SeedUsers[u].role ELSE "none"]

\* The Authorization header of a request: absent, a bearer token jwt.verify
\* rejects (malformed, forged or expired), or a token generateToken signed.
NoToken == [kind |-> "none", uid |-> 0]
BadToken == [kind |-> "bad", uid |-> 0]

\* generateToken(id): jwt.sign({ id }, secret, { expiresIn }); the payload
\* carries the user id and nothing else.
generateToken(id) == [kind |-> "good", uid |-> id]

\* jwt.verify(token, secret): throws unless signed by the server and unexpired.
jwtVerify(tok) == tok.kind = "good"

\* The tokens a client can present: none, a bad one, or one it was issued.
Tokens == {NoToken, BadToken} \cup {generateToken(u) : u \in {v \in UserIds : issued[v] # "none"}}
GoodTokens == {t \in Tokens : t.kind = "good"}

\* String.prototype.trimStart and trimEnd, on the space character.
RECURSIVE TrimStart(_)
TrimStart(s) == IF s # <<>> /\ Head(s) = " " THEN TrimStart(Tail(s)) ELSE s

RECURSIVE TrimEnd(_)
TrimEnd(s) ==
    IF s # <<>> /\ s[Len(s)] = " " THEN TrimEnd(SubSeq(s, 1, Len(s) - 1)) ELSE s

\* A trim of the leading white space only, for comparison with Trim.
TrimStartOnly(s) == TrimStart(s)
\* body('author').trim() of bookValidation and trim: true of bookSchema.
Trim(s) == TrimEnd(TrimStart(s))

\* A date as a client writes it in a JSON body and as a response carries it:
\* the empty string, 'YYYY-MM-DD', or the ISO date-time of midnight UTC,
\* 'YYYY-MM-DDT00:00:00.000Z'. day is the day number of the date.
DateString(kind, day) == [kind |-> kind, day |-> day]
EmptyString == DateString("empty", 0)

\* The cast of a string to the schema type Date: the empty string is null
\* (no date), the two other forms are the same instant.
CastDate(str) == IF str.kind = "empty" THEN {} ELSE {str.day}

\* Date.prototype.toJSON (toISOString): always the date-time form.
DateToJSON(day) == DateString("date-time", day)

\* res.json(book): the document as the response carries it.
ToJSON(doc) == [doc EXCEPT !.publishedDate = {DateToJSON(d) : d \in @}]

\* A request body for the admin create/update routes. A field is a set: empty
\* when the key is absent, {v} when present. valid: title, author, description
\* and genre are non-empty (bookValidation). incRating: the body carries the
\* update operator { $inc: { rating: v } }.
Body(valid, rating, ratingCount, readCount, incRating) ==
    [valid |-> valid, rating |-> rating, ratingCount |-> ratingCount,
     readCount |-> readCount, incRating |-> incRating, genre |-> "Fiction",
     author |-> {AuthorA}, publishedDate |-> {}]

NoBody == Body(TRUE, {}, {}, {}, {})

\* The bodies enumerated: the admin form's (no engagement field), a missing
\* required field, and bodies that carry engagement fields.
Bodies ==
    { NoBody,
      Body(FALSE, {}, {}, {}, {}),
      Body(TRUE, {40}, {}, {}, {}),
      Body(TRUE, {70}, {}, {}, {}),
      Body(TRUE, {}, {-2}, {0}, {}),
      Body(TRUE, {}, {}, {}, {20}) }

\* The body with another genre, another author, a publication date.
WithGenre(body, genre) == [body EXCEPT !.genre = genre]
WithAuthor(body, author) == [body EXCEPT !.author = {author}]
WithPublishedDate(body, str) == [body EXCEPT !.publishedDate = {str}]

\* What a response carries of a book.
NoResp == [rating |-> 0, ratingCount |-> 0, readCount |-> 0]

\* The query string of GET /api/books. Every parameter is a set: empty when
\* the parameter is absent, {v} when present. page and limit are strings;
\* minRating is in tenths, publishedFrom and publishedTo are day numbers.
Query(page, limit, genre, author, minRating, publishedFrom, publishedTo, sortBy, sortOrder) ==
    [page |-> page, limit |-> limit, genre |-> genre, author |-> author,
     minRating |-> minRating, publishedFrom |-> publishedFrom,
     publishedTo |-> publishedTo, sortBy |-> sortBy, sortOrder |-> sortOrder]

NoQuery == Query({}, {}, {}, {}, {}, {}, {}, {}, {})

\* The pagination object of a list response. A field is a set: empty when the
\* number is NaN (null in the JSON).
NoPagination == [total |-> {}, page |-> {}, limit |-> {}, totalPages |-> {}]

\* A free request slot. late is history: the books whose DELETE had been
\* answered 200 when the request arrived.
Idle ==
    [op |-> "none", pc |-> "idle", tok |-> NoToken, book |-> 0, rating |-> 0,
     body |-> NoBody, user |-> {}, doc |-> {}, status |-> 0, resp |-> NoResp,
     gone |-> FALSE, ran |-> FALSE, message |-> "", email |-> "", role |-> {},
     late |-> {},
     query |-> NoQuery, items |-> <<>>, pagination |-> NoPagination]

AdminOps == {"create", "update", "delete", "list"}

Free(p) == req[p].pc \in {"idle", "done"}
InFlight(p) == ~Free(p)
Quiescent == \A p \in Procs : Free(p)

\* res.status(code).json(...): the request ends.
Respond(p, code, body) ==
    req' = [req EXCEPT ![p].pc = "done", ![p].status = code, ![p].resp = body]

\* The message of a response a catch block sends: the message of the
\* exception it caught (a CastError, a ValidationError, a driver error).
ErrMessage == "err.message"

\* catch (err) { res.status(500).json({ message: err.message }) }
Catch(p) ==
    req' = [req EXCEPT ![p].pc = "done", ![p].status = 500, ![p].resp = NoResp,
                       ![p].message = ErrMessage]

\* A request arrives and enters its route's middleware chain at protect. The
\* slots are interchangeable: it takes the first free one.
Arrive(p, op, b, t, r, body) ==
    /\ Free(p)
    /\ \A q \in Procs : q < p => InFlight(q)
    /\ nreq' = nreq + 1
    /\ req' = [req EXCEPT ![p] =
                 [Idle EXCEPT !.op = op, !.pc = "protect", !.tok = t, !.book = b,
                              !.rating = r, !.body = body,
                              !.gone = (t.kind = "good" /\ t.uid \notin DOMAIN users),
                              !.late = deleted]]

\* ------------------------------------------------------------- Access Gate

\* The identity as it was when the token was issued (the role the login
\* response carried), for comparison with FindUser.
FindUserFromToken(uid) == [id |-> uid, role |-> issued[uid]]
\* User.findById(decoded.id).select('-password'): the user as stored now.
FindUser(uid) == [id |-> uid, role |-> users[uid].role]

\* The step after protect calls next(): adminOnly on /api/admin, else the handler.
AfterProtect(op) == IF op \in AdminOps THEN "adminOnly" ELSE "handler"

\* middleware/auth.js protect: no bearer token, a token jwt.verify rejects, or
\* a user that no longer exists end in 401; else req.user is the stored user.
protect(p) ==
    /\ req[p].pc = "protect"
    /\ LET tok == req[p].tok IN
       IF tok.kind = "none" THEN Respond(p, 401, NoResp)
       ELSE IF ~jwtVerify(tok) THEN Respond(p, 401, NoResp)
       ELSE IF tok.uid \notin DOMAIN users THEN Respond(p, 401, NoResp)
       ELSE req' = [req EXCEPT ![p].user = {FindUser(tok.uid)},
                               ![p].pc = AfterProtect(req[p].op)]
    /\ UNCHANGED <<store, nreq, ghost, front>>

\* adminOnly without its role test, for comparison with adminOnly.
adminOnlyOpen(p) ==
    /\ req[p].pc = "adminOnly"
    /\ req' = [req EXCEPT ![p].pc = "handler"]
    /\ UNCHANGED <<store, nreq, ghost, front>>
\* middleware/auth.js adminOnly: req.user?.role !== 'admin' ends in 403.
adminOnly(p) ==
    /\ req[p].pc = "adminOnly"
    /\ IF \E u \in req[p].user : u.role = "admin"
       THEN req' = [req EXCEPT ![p].pc = "handler"]
       ELSE Respond(p, 403, NoResp)
    /\ UNCHANGED <<store, nreq, ghost, front>>

\* routes/auth.js POST /login with the right password: the response carries
\* generateToken(user._id) and the user's role as stored at that moment.
Login(u) ==
    /\ u \in DOMAIN users
    /\ issued[u] # users[u].role
    /\ issued' = [issued EXCEPT ![u] = users[u].role]
    /\ UNCHANGED <<books, users, nextBookId, nextUserId, req, nreq, ghost, front>>

\* seed.js: await User.deleteMany({}) empties the User collection.
SeedDeleteUsers ==
    /\ DOMAIN users # {}
    /\ users' = [u \in {} |-> UserDoc(UserEmail, "user")]
    /\ UNCHANGED <<books, issued, nextBookId, nextUserId, req, nreq, ghost, front>>

\* A stored user's role is changed in the User collection.
SetRole(u, r) ==
    /\ u \in DOMAIN users
    /\ users[u].role # r
    /\ users' = [users EXCEPT ![u].role = r]
    /\ UNCHANGED <<books, issued, nextBookId, nextUserId, req, nreq, ghost, front>>

\* ---------------------------------------------------------------- register

\* A string that is no e-mail address.
NoEmail == "not-an-email"

\* body('email').isEmail(), on the addresses enumerated here. (The name and
\* the password of the requests modelled pass their validators.)
IsEmail(email) == email \in {AdminEmail, UserEmail, NewEmail}

\* POST /api/auth/register arrives with body { name, email, password, role };
\* role is a set, empty when the body has no such key. The route has no
\* middleware before its handler.
StartRegister(p, email, role) ==
    /\ Free(p)
    /\ \A q \in Procs : q < p => InFlight(q)
    /\ nreq' = nreq + 1
    /\ req' = [req EXCEPT ![p] = [Idle EXCEPT !.op = "register", !.pc = "handler",
                                              !.email = email, !.role = role]]
    /\ UNCHANGED <<store, ghost, front>>

\* Lines 23-34: validationResult (400), then existing = await
\* User.findOne({ email }); a user with that e-mail ends the request with
\* 400 'Email already in use.'.
RegisterFindOne(p) ==
    /\ req[p].op = "register"
    /\ req[p].pc = "handler"
    /\ IF ~IsEmail(req[p].email)
       THEN req' = [req EXCEPT ![p].pc = "done", ![p].status = 400,
                               ![p].message = "Valid email is required"]
       ELSE IF \E u \in DOMAIN users : users[u].email = req[p].email
       THEN req' = [req EXCEPT ![p].pc = "done", ![p].status = 400,
                               ![p].message = "Email already in use."]
       ELSE req' = [req EXCEPT ![p].pc = "create"]
    /\ UNCHANGED <<store, nreq, ghost, front>>

\* The User collection without a unique index on email, for comparison with
\* DuplicateKey.
DuplicateKeyNever(email) == FALSE
\* The unique index on email of the User collection: an insert of a second
\* document with a stored e-mail fails with a duplicate key error (E11000).
DuplicateKey(email) == \E u \in DOMAIN users : users[u].email = email

\* Line 36: const userRole = role === 'admin' ? 'admin' : 'user'.
UserRole(role) == IF role = {"admin"} THEN "admin" ELSE "user"

\* Lines 36-45: User.create({ name, email, password, role: userRole }), then
\* 201 with generateToken(user._id) and the user; an error of the insert is
\* caught (500).
RegisterCreate(p) ==
    /\ req[p].op = "register"
    /\ req[p].pc = "create"
    /\ LET id == nextUserId
           user == UserDoc(req[p].email, UserRole(req[p].role)) IN
       IF DuplicateKey(req[p].email)
       THEN Catch(p) /\ UNCHANGED <<users, issued, nextUserId>>
       ELSE /\ id \in UserIds
            /\ users' = [u \in DOMAIN users \cup {id} |-> IF u = id THEN user ELSE users[u]]
            /\ nextUserId' = id + 1
            /\ issued' = [issued EXCEPT ![id] = user.role]
            /\ req' = [req EXCEPT ![p].pc = "done", ![p].status = 201,
                                  ![p].user = {[id |-> id, role |-> user.role]}]
    /\ UNCHANGED <<books, nextBookId, nreq, ghost, front>>

\* ------------------------------------------------------------------ get one

\* The :id of a route as Mongoose casts it: the model's positive integers are
\* the strings that are ObjectIds; any other string (0 here) is none, and
\* findById, findByIdAndUpdate throw a CastError for it.
WellFormedId(b) == b >= 1

\* GET /api/books/:id arrives; the route has no middleware before its handler.
StartGet(p, b) ==
    /\ Free(p)
    /\ \A r \in Procs : r < p => InFlight(r)
    /\ nreq' = nreq + 1
    /\ req' = [req EXCEPT ![p] = [Idle EXCEPT !.op = "get", !.pc = "handler", !.book = b,
                                              !.late = deleted]]
    /\ UNCHANGED <<store, ghost, front>>

\* The client whose create was answered 201 sends GET /api/books/:id with the
\* _id of that response. The slot keeps the body the client had supplied
\* (history).
StartGetCreated(p) ==
    /\ req[p].op = "create"
    /\ req[p].pc = "done"
    /\ req[p].status = 201
    /\ nreq' = nreq + 1
    /\ req' = [req EXCEPT ![p] = [Idle EXCEPT !.op = "get", !.pc = "handler",
                                              !.book = req[p].book, !.late = deleted,
                                              !.body = req[p].body]]
    /\ UNCHANGED <<store, ghost, front>>

\* Book.findById(req.params.id).lean(): a CastError is caught (500), null is
\* 404, else the book is the response.
GetBook(p) ==
    /\ req[p].op = "get"
    /\ req[p].pc = "handler"
    /\ LET b == req[p].book IN
       IF ~WellFormedId(b) THEN Catch(p)
       ELSE IF b \notin DOMAIN books THEN Respond(p, 404, NoResp)
       ELSE Respond(p, 200, ToJSON(books[b]))
    /\ UNCHANGED <<store, nreq, ghost, front>>

\* ---------------------------------------------------- Engagement: recordRead

Bump(f, b) == [f EXCEPT ![b] = @ + 1]

\* Another call of the same operation on the same book is in flight.
Overlaps(p, op, b) ==
    \E q \in Procs \ {p} : InFlight(q) /\ req[q].op = op /\ req[q].book = b

\* POST /api/books/:id/read arrives.
StartRead(p, b, t) ==
    /\ Arrive(p, "read", b, t, 0, NoBody)
    /\ conc' = [conc EXCEPT ![b] = @ \/ Overlaps(p, "read", b)]
    /\ UNCHANGED <<store, okReads, okRates, hist, pages, deleted, front>>

\* The increment written as findById, then save, for comparison with
\* ReadUpdate: two storage operations with a suspension point between them.
ReadUpdateRMW(p) ==
    /\ req[p].op = "read"
    /\ req[p].pc = "handler"
    /\ LET b == req[p].book IN
       IF req[p].doc = {}
       THEN IF b \notin DOMAIN books
            THEN Respond(p, 404, NoResp) /\ UNCHANGED books
            ELSE req' = [req EXCEPT ![p].doc = {books[b]}] /\ UNCHANGED books
       ELSE LET d == CHOOSE x \in req[p].doc : TRUE
                new == [d EXCEPT !.readCount = @ + 1] IN
            /\ books' = IF b \in DOMAIN books
                        THEN [books EXCEPT ![b].readCount = new.readCount]
                        ELSE books
            /\ req' = [req EXCEPT ![p].doc = {new}, ![p].pc = "addToSet"]
    /\ UNCHANGED <<users, issued, nextBookId, nextUserId, nreq, ghost, front>>
\* Book.findByIdAndUpdate(id, { $inc: { readCount: 1 } }, { new: true }): one
\* atomic storage operation; null (404) when no such book, and the catch's
\* 500 when the id is no ObjectId.
ReadUpdate(p) ==
    /\ req[p].op = "read"
    /\ req[p].pc = "handler"
    /\ LET b == req[p].book IN
       IF ~WellFormedId(b)
       THEN Catch(p) /\ UNCHANGED books
       ELSE IF b \notin DOMAIN books
       THEN Respond(p, 404, NoResp) /\ UNCHANGED books
       ELSE /\ books' = [books EXCEPT ![b].readCount = @ + 1]
            /\ req' = [req EXCEPT ![p].doc = {books'[b]}, ![p].pc = "addToSet"]
    /\ UNCHANGED <<users, issued, nextBookId, nextUserId, nreq, ghost, front>>

\* User.findByIdAndUpdate(req.user._id, { $addToSet: { readBooks: book._id } })
\* (no match, no error, when the user is gone), then the 200 response with
\* the readCount of the document the update returned.
ReadAddToSet(p) ==
    /\ req[p].op = "read"
    /\ req[p].pc = "addToSet"
    /\ LET b == req[p].book
           u == (CHOOSE x \in req[p].user : TRUE).id
           d == CHOOSE x \in req[p].doc : TRUE IN
       /\ users' = IF u \in DOMAIN users
                   THEN [users EXCEPT ![u].readBooks = @ \cup {b}]
                   ELSE users
       /\ Respond(p, 200, [NoResp EXCEPT !.readCount = d.readCount])
       /\ okReads' = Bump(okReads, b)
    /\ UNCHANGED <<books, issued, nextBookId, nextUserId, nreq,
                  okRates, hist, conc, pages, deleted, front>>

\* Lines 89-97: the await of User.findByIdAndUpdate rejects (the connection
\* drops, the operation times out) and the catch answers 500. The increment
\* of readCount has been written by then and nothing undoes it.
ReadAddToSetFails(p) ==
    /\ req[p].op = "read"
    /\ req[p].pc = "addToSet"
    /\ Catch(p)
    /\ UNCHANGED <<store, nreq, ghost, front>>

\* -------------------------------------------------- Engagement: recordRating

\* The validator without its lower bound, for comparison with ValidRating.
ValidRatingNoMin(r) == r <= RateMax
\* body('rating').isFloat({ min: 1, max: 5 })
ValidRating(r) == RateMin <= r /\ r <= RateMax

\* Math.floor(x), for comparison with MathRound. x is num / den.
MathFloor(num, den) ==
    IF den > 0 THEN num \div den ELSE (-num) \div (-den)
\* Math.round(x): the integer nearest to x, a tie going up. x is num / den.
MathRound(num, den) ==
    IF den > 0 THEN (2 * num + den) \div (2 * den)
    ELSE (2 * (-num) + (-den)) \div (2 * (-den))

\* bookSchema.rating: { min: 0, max: 5 }
RatingInRange(x) == RatingMin <= x /\ x <= RatingMax

\* POST /api/books/:id/rate arrives with body { rating: r }.
StartRate(p, b, t, r) ==
    /\ Arrive(p, "rate", b, t, r, NoBody)
    /\ conc' = [conc EXCEPT ![b] = @ \/ Overlaps(p, "rate", b)]
    /\ UNCHANGED <<store, okReads, okRates, hist, pages, deleted, front>>

\* validationResult (400), then Book.findById(id): a CastError is caught
\* (500), null is 404, else the handler holds the document as it was read.
RateLoad(p) ==
    /\ req[p].op = "rate"
    /\ req[p].pc = "handler"
    /\ LET b == req[p].book IN
       IF ~ValidRating(req[p].rating) THEN Respond(p, 400, NoResp)
       ELSE IF ~WellFormedId(b) THEN Catch(p)
       ELSE IF b \notin DOMAIN books THEN Respond(p, 404, NoResp)
       ELSE req' = [req EXCEPT ![p].doc = {books[b]}, ![p].pc = "save"]
    /\ UNCHANGED <<store, nreq, ghost, front>>

\* The save written as an upsert (the loaded document is written back under
\* its _id whether or not it is still stored), for comparison with RateSave.
RateSaveUpsert(p) ==
    /\ req[p].op = "rate"
    /\ req[p].pc = "save"
    /\ LET b == req[p].book
           d == CHOOSE x \in req[p].doc : TRUE
           new == [d EXCEPT !.ratingCount = @ + 1] IN
       /\ books' = [x \in DOMAIN books \cup {b} |-> IF x = b THEN new ELSE books[x]]
       /\ Respond(p, 200, [NoResp EXCEPT !.rating = new.rating,
                                         !.ratingCount = new.ratingCount])
       /\ okRates' = Bump(okRates, b)
       /\ hist' = [hist EXCEPT ![b] = Append(@, req[p].rating)]
    /\ UNCHANGED <<users, issued, nextBookId, nextUserId, nreq,
                   okReads, conc, pages, deleted, front>>
\* Lines 112-119: the new count and the rounded running mean are computed
\* from the loaded document, then book.save(). save validates the paths that
\* changed (rating: min 0, max 5; a division by zero gives Infinity or NaN,
\* which fail it too) and writes only those paths with one updateOne on _id;
\* it throws when validation fails or no document matches (500). A path set
\* to the value it already had is not written.
RateSave(p) ==
    /\ req[p].op = "rate"
    /\ req[p].pc = "save"
    /\ LET b == req[p].book
           d == CHOOSE x \in req[p].doc : TRUE
           newRatingCount == d.ratingCount + 1
           newRating == IF newRatingCount = 0 THEN RatingMax + 1
                        ELSE MathRound(d.rating * d.ratingCount + req[p].rating,
                                       newRatingCount)
           ratingModified == newRating # d.rating IN
       IF \/ newRatingCount = 0
          \/ ratingModified /\ ~RatingInRange(newRating)
          \/ b \notin DOMAIN books
       THEN Catch(p) /\ UNCHANGED <<books, okRates, hist>>
       ELSE /\ books' = [books EXCEPT
                           ![b].ratingCount = newRatingCount,
                           ![b].rating = IF ratingModified THEN newRating ELSE @]
            /\ Respond(p, 200, [NoResp EXCEPT !.rating = newRating,
                                              !.ratingCount = newRatingCount])
            /\ okRates' = Bump(okRates, b)
            /\ hist' = [hist EXCEPT ![b] = Append(@, req[p].rating)]
    /\ UNCHANGED <<users, issued, nextBookId, nextUserId, nreq,
                  okReads, conc, pages, deleted, front>>

\* ------------------------------------------------------------ admin routes

\* A request to /api/admin/* arrives (router.use(protect, adminOnly)).
StartAdmin(p, op, b, t, body) ==
    /\ Arrive(p, op, b, t, 0, body)
    /\ UNCHANGED <<store, ghost, front>>

\* The value a body gives a field, or the default when the key is absent.
Given(field, default) == IF field = {} THEN default ELSE CHOOSE v \in field : TRUE

\* The schema's validators without the genre enum, for comparison with
\* SchemaAccepts.
SchemaAcceptsAnyGenre(body) == \A v \in body.rating : RatingInRange(v)
\* The schema's validators on the fields a body sets: rating min 0, max 5,
\* and genre one of the enum. ratingCount and readCount have none.
SchemaAccepts(body) ==
    /\ \A v \in body.rating : RatingInRange(v)
    /\ body.genre \in Genres

\* POST /api/admin/books: bookValidation (400), then Book.create({ ...req.body,
\* createdBy }): the schema's validators run and a failure is a 500; fields
\* the body omits take the schema defaults. Keys that are no schema path
\* (an update operator) are dropped by strict mode.
AdminCreate(p) ==
    /\ req[p].op = "create"
    /\ req[p].pc = "handler"
    /\ LET body == req[p].body
           id == nextBookId
           doc == [BookDoc(Given(body.rating, DefaultBook.rating),
                           Given(body.ratingCount, DefaultBook.ratingCount),
                           Given(body.readCount, DefaultBook.readCount))
                   EXCEPT !.genre = body.genre, !.createdAt = id,
                          !.author = Trim(Given(body.author, <<>>)),
                          !.publishedDate = UNION {CastDate(str) : str \in body.publishedDate}] IN
       IF ~body.valid
       THEN /\ req' = [req EXCEPT ![p].pc = "done", ![p].status = 400, ![p].ran = TRUE]
            /\ UNCHANGED <<books, nextBookId>>
       ELSE IF ~SchemaAccepts(body)
       THEN /\ req' = [req EXCEPT ![p].pc = "done", ![p].status = 500, ![p].ran = TRUE,
                                  ![p].message = ErrMessage]
            /\ UNCHANGED <<books, nextBookId>>
       ELSE /\ id \in BookIds
            /\ books' = [x \in DOMAIN books \cup {id} |->
                            IF x = id THEN doc ELSE books[x]]
            /\ nextBookId' = id + 1
            /\ req' = [req EXCEPT ![p].pc = "done", ![p].status = 201,
                                  ![p].resp = ToJSON(doc), ![p].book = id,
                                  ![p].ran = TRUE]
    /\ UNCHANGED <<users, issued, nextUserId, nreq, ghost, front>>

\* findByIdAndUpdate(id, req.body, { new: true, runValidators: true }): the
\* plain keys of the body become $set and are validated; an update operator
\* in the body is applied as it is, and update validators do not look at $inc.
ApplyUpdate(doc, body) ==
    [doc EXCEPT !.rating = Given(body.rating, doc.rating) + Given(body.incRating, 0),
                !.ratingCount = Given(body.ratingCount, doc.ratingCount),
                !.readCount = Given(body.readCount, doc.readCount),
                !.genre = body.genre,
                !.author = Trim(Given(body.author, doc.author)),
                !.publishedDate = IF body.publishedDate = {} THEN @
                                  ELSE UNION {CastDate(str) : str \in body.publishedDate}]

\* PUT /api/admin/books/:id: bookValidation (400), the update validators
\* (500), then the atomic update; null (404) when no such book.
AdminUpdate(p) ==
    /\ req[p].op = "update"
    /\ req[p].pc = "handler"
    /\ LET body == req[p].body
           b == req[p].book IN
       IF ~body.valid
       THEN /\ req' = [req EXCEPT ![p].pc = "done", ![p].status = 400, ![p].ran = TRUE]
            /\ UNCHANGED books
       ELSE IF ~SchemaAccepts(body)
       THEN /\ req' = [req EXCEPT ![p].pc = "done", ![p].status = 500, ![p].ran = TRUE,
                                  ![p].message = ErrMessage]
            /\ UNCHANGED books
       ELSE IF ~WellFormedId(b)
       THEN /\ req' = [req EXCEPT ![p].pc = "done", ![p].status = 500, ![p].ran = TRUE,
                                  ![p].message = ErrMessage]
            /\ UNCHANGED books
       ELSE IF b \notin DOMAIN books
       THEN /\ req' = [req EXCEPT ![p].pc = "done", ![p].status = 404, ![p].ran = TRUE]
            /\ UNCHANGED books
       ELSE /\ books' = [books EXCEPT ![b] = ApplyUpdate(@, body)]
            /\ req' = [req EXCEPT ![p].pc = "done", ![p].status = 200,
                                  ![p].resp = ToJSON(books'[b]), ![p].ran = TRUE]
    /\ UNCHANGED <<users, issued, nextBookId, nextUserId, nreq, ghost, front>>

\* The delete written as a tombstone (the document is marked and stays in
\* the collection, and the routes that read do not look at the mark), for
\* comparison with AdminDelete.
AdminDeleteTombstone(p) ==
    /\ req[p].op = "delete"
    /\ req[p].pc = "handler"
    /\ LET b == req[p].book IN
       IF b \notin DOMAIN books \/ b \in deleted
       THEN /\ req' = [req EXCEPT ![p].pc = "done", ![p].status = 404, ![p].ran = TRUE]
            /\ UNCHANGED deleted
       ELSE /\ req' = [req EXCEPT ![p].pc = "done", ![p].status = 200, ![p].ran = TRUE]
            /\ deleted' = deleted \cup {b}
    /\ UNCHANGED <<store, nreq, okReads, okRates, hist, conc, pages, front>>
\* DELETE /api/admin/books/:id: findByIdAndDelete removes the document; a
\* CastError is caught (500), null is 404.
AdminDelete(p) ==
    /\ req[p].op = "delete"
    /\ req[p].pc = "handler"
    /\ LET b == req[p].book IN
       IF ~WellFormedId(b)
       THEN /\ req' = [req EXCEPT ![p].pc = "done", ![p].status = 500, ![p].ran = TRUE,
                                  ![p].message = ErrMessage]
            /\ UNCHANGED <<books, deleted>>
       ELSE IF b \notin DOMAIN books
       THEN /\ req' = [req EXCEPT ![p].pc = "done", ![p].status = 404, ![p].ran = TRUE]
            /\ UNCHANGED <<books, deleted>>
       ELSE /\ books' = [x \in DOMAIN books \ {b} |-> books[x]]
            /\ req' = [req EXCEPT ![p].pc = "done", ![p].status = 200, ![p].ran = TRUE]
            /\ deleted' = deleted \cup {b}
    /\ UNCHANGED <<users, issued, nextBookId, nextUserId, nreq,
                   okReads, okRates, hist, conc, pages, front>>

\* GET /api/admin/books and GET /api/admin/insights: queries only.
AdminList(p) ==
    /\ req[p].op = "list"
    /\ req[p].pc = "handler"
    /\ req' = [req EXCEPT ![p].pc = "done", ![p].status = 200, ![p].ran = TRUE]
    /\ UNCHANGED <<store, nreq, ghost, front>>

\* -------------------------------------------------------------- list query

\* The decimal digits, by value + 1.
Digits == <<"0", "1", "2", "3", "4", "5", "6", "7", "8", "9">>
IsDigit(c) == \E d \in DOMAIN Digits : Digits[d] = c
DigitValue(c) == (CHOOSE d \in DOMAIN Digits : Digits[d] = c) - 1

\* The value of the longest prefix of digits of s, continuing from acc.
RECURSIVE LeadingDigits(_, _)
LeadingDigits(s, acc) ==
    IF s = <<>> \/ ~IsDigit(Head(s)) THEN acc
    ELSE LeadingDigits(Tail(s), 10 * acc + DigitValue(Head(s)))

\* parseInt(string): leading white space is skipped, then an optional sign,
\* then the longest run of digits; what follows is ignored. NaN (the empty
\* set) when there is no digit to read.
parseInt(str) ==
    LET t == TrimStart(str)
        signed == t # <<>> /\ Head(t) \in {"-", "+"}
        u == IF signed THEN Tail(t) ELSE t IN
    IF u = <<>> \/ ~IsDigit(Head(u)) THEN {}
    ELSE {IF Head(t) = "-" THEN 0 - LeadingDigits(u, 0) ELSE LeadingDigits(u, 0)}

\* Math.max(a, x) and Math.min(a, x): NaN when x is NaN.
MathMax(a, x) == {IF v > a THEN v ELSE a : v \in x}
MathMin(a, x) == {IF v < a THEN v ELSE a : v \in x}

\* const { page = 1, limit = 12 } = req.query: the default applies to an
\* absent parameter only; parseInt of the number is the number.
PageOf(q) == IF q.page = {} THEN {DefaultPage} ELSE parseInt(CHOOSE x \in q.page : TRUE)
LimitOf(q) == IF q.limit = {} THEN {DefaultLimit} ELSE parseInt(CHOOSE x \in q.limit : TRUE)

\* const pageNum = Math.max(1, parseInt(page))
PageNum(q) == MathMax(1, PageOf(q))

\* const limitNum = Math.min(50, Math.max(1, parseInt(limit)))
LimitNum(q) == MathMin(LimitCap, MathMax(1, LimitOf(q)))

\* const skip = (pageNum - 1) * limitNum: NaN when either is.
Skip(q) == {(pg - 1) * l : pg \in PageNum(q), l \in LimitNum(q)}

\* Lower case of a character (the alphabet of the authors modelled).
Lower(c) == IF c = "A" THEN "a" ELSE IF c = "B" THEN "b" ELSE c

\* { $regex: pattern, $options: 'i' }: the pattern matches somewhere in str,
\* letters compared without case; '.' in the pattern matches any character.
\* (Of the regular-expression operators only '.' is modelled.)
RegexMatch(pattern, str) ==
    \E off \in 0..(Len(str) - Len(pattern)) :
        \A i \in DOMAIN pattern :
            pattern[i] = "." \/ Lower(pattern[i]) = Lower(str[off + i])

\* The filter object built from the query (lines 18-30), as a predicate on a
\* document. A range on publishedDate matches no document without a date.
Matches(doc, q) ==
    /\ \A g \in q.genre : doc.genre = g
    /\ \A a \in q.author : RegexMatch(a, doc.author)
    /\ \A m \in q.minRating : doc.rating >= m
    /\ \A f \in q.publishedFrom : \E d \in doc.publishedDate : d >= f
    /\ \A t \in q.publishedTo : \E d \in doc.publishedDate : d <= t

Matching(q) == {b \in DOMAIN books : Matches(books[b], q)}

\* sortBy = 'createdAt', sortOrder = 'desc'; sortOptions[sortBy] is 1 for
\* 'asc' and -1 for anything else.
SortBy(q) == IF q.sortBy = {} THEN "createdAt" ELSE CHOOSE x \in q.sortBy : TRUE
Ascending(q) == q.sortOrder = {"asc"}

\* The value a document is sorted on.
SortKey(b, q) == books[b][SortBy(q)]

\* The identifiers S as a sequence.
IdSeq(S) ==
    IF S = {} THEN <<>>
    ELSE LET top == CHOOSE x \in S : \A y \in S : y <= x IN
         SelectSeq([i \in 1..top |-> i], LAMBDA i : i \in S)

\* The documents S, each with its sort key, in sort order.
Sorted(S, q) ==
    LET ids == IdSeq(S)
        keyed == [i \in DOMAIN ids |-> [id |-> ids[i], key |-> SortKey(ids[i], q)]] IN
    SortSeq(keyed, LAMBDA a, b : IF Ascending(q) THEN a.key < b.key ELSE a.key > b.key)

\* s without its i-th element.
Remove(s, i) == SubSeq(s, 1, i - 1) \o SubSeq(s, i + 1, Len(s))

\* The first n documents of the orders sort(sortOptions) may produce: sorted
\* is the documents in sort order, and those that share the first one's key
\* may each come first. The query names no second key, so documents with
\* equal keys come in any order.
RECURSIVE TieOrders(_, _)
TieOrders(sorted, n) ==
    IF sorted = <<>> \/ n <= 0 THEN {<<>>}
    ELSE UNION { { <<sorted[i].id>> \o rest : rest \in TieOrders(Remove(sorted, i), n - 1) } :
                 i \in {j \in DOMAIN sorted : sorted[j].key = sorted[1].key} }

Orders(S, q, n) == TieOrders(Sorted(S, q), n)

\* skip(n).limit(m) of a sequence.
RECURSIVE Drop(_, _)
Drop(s, n) == IF n <= 0 \/ s = <<>> THEN s ELSE Drop(Tail(s), n - 1)
Take(s, m) == IF m >= Len(s) THEN s ELSE SubSeq(s, 1, m)

\* Math.ceil(total / limitNum), limitNum >= 1.
TotalPages(total, limitNum) == (total + limitNum - 1) \div limitNum

\* The pagination object of the response (lines 46-51).
Pagination(q, total) ==
    [total |-> {total}, page |-> PageNum(q), limit |-> LimitNum(q),
     totalPages |-> {TotalPages(total, l) : l \in LimitNum(q)}]

\* GET /api/books arrives; the route has no middleware before its handler.
StartList(p, q) ==
    /\ Free(p)
    /\ \A r \in Procs : r < p => InFlight(r)
    /\ nreq' = nreq + 1
    /\ req' = [req EXCEPT ![p] =
                 [Idle EXCEPT !.op = "find", !.pc = "handler", !.query = q,
                              !.late = deleted]]
    /\ UNCHANGED <<store, ghost, front>>

\* res.json({ books, pagination }) or the catch's 500: the request ends and
\* the client has one more response.
ListRespond(p, code, items, pagination) ==
    /\ req' = [req EXCEPT ![p].pc = "done", ![p].status = code,
                          ![p].items = items, ![p].pagination = pagination,
                          ![p].message = IF code = 500 THEN ErrMessage ELSE ""]
    /\ pages' = Append(pages, [query |-> req[p].query, status |-> code,
                               items |-> items, pagination |-> pagination])

\* Book.find(filter).sort(sortOptions).skip(skip).limit(limitNum).lean(), one
\* of the two queries Promise.all awaits (they complete in either order).
\* With skip or limit NaN the outcome is the driver's and the server's: the
\* query is rejected (500), or NaN is read as 0 (no skip, no limit).
ListFind(p) ==
    /\ req[p].op = "find"
    /\ req[p].pc \in {"handler", "counted"}
    /\ LET q == req[p].query
           all == Matching(q)
           upTo == IF Skip(q) = {} \/ LimitNum(q) = {} THEN Cardinality(all)
                   ELSE (CHOOSE n \in Skip(q) : TRUE) + (CHOOSE m \in LimitNum(q) : TRUE) IN
       \E order \in Orders(all, q, upTo), accepted \in BOOLEAN :
           LET skipped == IF Skip(q) = {} THEN order
                          ELSE Drop(order, CHOOSE n \in Skip(q) : TRUE)
               found == IF LimitNum(q) = {} THEN skipped
                        ELSE Take(skipped, CHOOSE m \in LimitNum(q) : TRUE) IN
           IF Skip(q) = {} /\ ~accepted
           THEN ListRespond(p, 500, <<>>, NoPagination)
           ELSE /\ Skip(q) # {} => accepted
                /\ IF req[p].pc = "handler"
                   THEN /\ req' = [req EXCEPT ![p].items = found, ![p].pc = "found"]
                        /\ UNCHANGED pages
                   ELSE ListRespond(p, 200, found, req[p].pagination)
    /\ UNCHANGED <<store, nreq, okReads, okRates, hist, conc, deleted, front>>

\* Book.countDocuments(filter), the other query of the Promise.all.
ListCount(p) ==
    /\ req[p].op = "find"
    /\ req[p].pc \in {"handler", "found"}
    /\ LET q == req[p].query
           total == Cardinality(Matching(q)) IN
       IF req[p].pc = "handler"
       THEN /\ req' = [req EXCEPT ![p].pagination = Pagination(q, total),
                                  ![p].pc = "counted"]
            /\ UNCHANGED pages
       ELSE ListRespond(p, 200, req[p].items, Pagination(q, total))
    /\ UNCHANGED <<store, nreq, okReads, okRates, hist, conc, deleted, front>>

\* ---------------------------------------------------------------- frontend

\* store/filterSlice.ts: initialState.
initialState ==
    [search |-> "", genre |-> "", author |-> "", minRating |-> "",
     sortBy |-> "createdAt", sortOrder |-> "desc",
     publishedFrom |-> "", publishedTo |-> "", page |-> 1, limit |-> 12]

\* The reducers of filterSlice: the state after the action, from the state
\* before it and the action's payload.
setSearch(state, payload) == [state EXCEPT !.search = payload, !.page = 1]
setGenre(state, payload) == [state EXCEPT !.genre = payload, !.page = 1]
setAuthor(state, payload) == [state EXCEPT !.author = payload, !.page = 1]
setMinRating(state, payload) == [state EXCEPT !.minRating = payload, !.page = 1]
setSortBy(state, payload) == [state EXCEPT !.sortBy = payload, !.page = 1]
setSortOrder(state, payload) == [state EXCEPT !.sortOrder = payload]
setPublishedFrom(state, payload) == [state EXCEPT !.publishedFrom = payload, !.page = 1]
setPublishedTo(state, payload) == [state EXCEPT !.publishedTo = payload, !.page = 1]
setPage(state, payload) == [state EXCEPT !.page = payload]
setLimit(state, payload) == [state EXCEPT !.limit = payload, !.page = 1]
resetFilters(state) == initialState

\* HomePage before its first request is answered: no data, loading, no error.
NoData == [data |-> {}, loading |-> TRUE, error |-> ""]

\* fetchBooks, lines 44-54: the URLSearchParams of a filter state. A filter
\* that is the empty string is left out (the empty set); sortBy, sortOrder,
\* page and limit are always sent.
Truthy(str) == IF str = "" THEN {} ELSE {str}
Params(f) ==
    [search |-> Truthy(f.search), genre |-> Truthy(f.genre), author |-> Truthy(f.author),
     minRating |-> Truthy(f.minRating), publishedFrom |-> Truthy(f.publishedFrom),
     publishedTo |-> Truthy(f.publishedTo), sortBy |-> f.sortBy,
     sortOrder |-> f.sortOrder, page |-> f.page, limit |-> f.limit]

\* A reducer ran and left the state `next`. When the state changed, HomePage
\* renders again: useCallback makes a new fetchBooks over the new filters
\* and the effect's cleanup clears the pending timeout before the effect sets
\* a new one (350 ms when there is a search text, else 0). A reducer that
\* changes nothing causes no render.
Dispatch(next) ==
    /\ filters' = next
    /\ timer' = IF next # filters THEN {next} ELSE timer
    /\ UNCHANGED <<store, req, nreq, ghost, fetching, home>>

\* The timeout fires and fetchBooks runs up to its await: setLoading(true),
\* setError(''), and the GET /books request built from the filters the
\* callback closed over is sent.
FetchBooks ==
    /\ \E f \in timer :
          fetching' = fetching \cup {[id |-> nreq + 1, params |-> Params(f)]}
    /\ timer' = {}
    /\ nreq' = nreq + 1
    /\ home' = [home EXCEPT !.loading = TRUE, !.error = ""]
    /\ UNCHANGED <<store, req, ghost, filters>>

\* The response to a request sent earlier arrives: setData(data), then
\* setLoading(false). The response is named by the request it answers.
FetchDone(r) ==
    /\ r \in fetching
    /\ fetching' = fetching \ {r}
    /\ home' = [home EXCEPT !.data = {r.params}, !.loading = FALSE]
    /\ UNCHANGED <<store, req, nreq, ghost, filters, timer>>

\* The request fails: the catch sets the error, then setLoading(false).
FetchFailed(r) ==
    /\ r \in fetching
    /\ fetching' = fetching \ {r}
    /\ home' = [home EXCEPT !.error = "Failed to load books.", !.loading = FALSE]
    /\ UNCHANGED <<store, req, nreq, ghost, filters, timer>>

\* The page is not open.
NoFrontend ==
    /\ filters = initialState
    /\ timer = {}
    /\ fetching = {}
    /\ home = NoData

\* ---------------------------------------------------------- specifications

\* The ratings submitted, in tenths: 1, 1.5 and 5 stars.
RateInputs == {10, 15, 50}

NoHistory ==
    /\ okReads = [b \in BookIds |-> 0]
    /\ okRates = [b \in BookIds |-> 0]
    /\ hist = [b \in BookIds |-> <<>>]
    /\ conc = [b \in BookIds |-> FALSE]
    /\ pages = <<>>
    /\ deleted = {}

NoRequests ==
    /\ req = [p \in Procs |-> Idle]
    /\ nreq = 0

\* The store as seed.js leaves it (its first book), one more book created with
\* the admin form (schema defaults), and both seeded users logged in.
SeededBooks == [b \in {1, 2} |-> IF b = 1 THEN SeedBook ELSE DefaultBook]

Init ==
    /\ books = SeededBooks
    /\ users = SeedUsers
    /\ issued = SeedIssued
    /\ nextBookId = 3
    /\ nextUserId = 3
    /\ NoRequests
    /\ NoHistory
    /\ NoFrontend

\* recordRead calls, up to NumProcs of them in flight together.
NextRead ==
    \E p \in Procs :
        \/ /\ nreq < MaxRequests
           /\ \E b \in DOMAIN SeededBooks, t \in {NoToken, generateToken(SeedUserId)} :
                  StartRead(p, b, t)
        \/ protect(p)
        \/ ReadUpdate(p)
        \/ ReadAddToSet(p)

SpecRead == Init /\ [][NextRead]_vars

\* The rating and admin specifications keep two requests in flight.
Pair == {p \in Procs : p <= 2}

\* Ratings outside [1, 5]: 0 and 5.1.
BadRateInputs == {0, 51}

\* recordRating calls, two in flight together, with ratings the validator
\* accepts and ratings it rejects.
NextRate ==
    \E p \in Pair :
        \/ /\ nreq < MaxRequests
           /\ \E b \in DOMAIN SeededBooks, r \in RateInputs \cup BadRateInputs :
                  StartRate(p, b, generateToken(SeedUserId), r)
        \/ protect(p)
        \/ RateLoad(p)
        \/ RateSave(p)

SpecRate == Init /\ [][NextRate]_vars

\* recordRating calls one after another, on two books no one has rated yet.
UnratedBooks == [b \in {1, 2} |-> DefaultBook]

InitSeq ==
    /\ books = UnratedBooks
    /\ users = SeedUsers
    /\ issued = SeedIssued
    /\ nextBookId = 3
    /\ nextUserId = 3
    /\ NoRequests
    /\ NoHistory
    /\ NoFrontend

\* The next rating is submitted once the previous one has been answered.
StartRateSeq(p, b, t, r) ==
    /\ Quiescent
    /\ Arrive(p, "rate", b, t, r, NoBody)
    /\ UNCHANGED <<store, ghost, front>>

NextSeq ==
    \/ /\ nreq < MaxSeqRatings
       /\ \E b \in DOMAIN UnratedBooks, r \in RateInputs :
              StartRateSeq(1, b, generateToken(SeedUserId), r)
    \/ protect(1)
    \/ RateLoad(1)
    \/ RateSave(1)

SpecSeq == InitSeq /\ [][NextSeq]_vars

\* C1: recordRead loses no increment. Once every call has been answered, the
\* stored readCount of each book is its value before the calls plus the
\* number of calls answered 200, whatever the interleaving was.
C1_NoLostRead ==
    Quiescent =>
        \A b \in DOMAIN books :
            books[b].readCount = SeededBooks[b].readCount + okReads[b]

\* Three calls on the seeded book, overlapping, all answered 200.
C1_Witness ==
    /\ Quiescent
    /\ conc[1]
    /\ okReads[1] >= 3
    /\ books[1].readCount = SeedReadCount + okReads[1]

\* An admin create may start while a fresh identifier is left for it.
CanCreate ==
    nextBookId + Cardinality({q \in Procs : InFlight(q) /\ req[q].op = "create"})
        \in BookIds

\* The whole catalog: the engagement calls of a signed-in user and the admin's
\* create, update and delete, two requests in flight together.
Arrival(p) ==
    \/ \E b \in BookIds : StartRead(p, b, generateToken(SeedUserId))
    \/ \E b \in BookIds, r \in {10, 50} :
          StartRate(p, b, generateToken(SeedUserId), r)
    \/ \E body \in Bodies :
          CanCreate /\ StartAdmin(p, "create", 0, generateToken(SeedAdminId), body)
    \/ \E b \in BookIds, body \in Bodies :
          StartAdmin(p, "update", b, generateToken(SeedAdminId), body)
    \/ \E b \in BookIds :
          StartAdmin(p, "delete", b, generateToken(SeedAdminId), NoBody)

Next ==
    \E p \in Pair :
        \/ nreq < MaxOps /\ Arrival(p)
        \/ protect(p)
        \/ adminOnly(p)
        \/ ReadUpdate(p)
        \/ ReadAddToSet(p)
        \/ RateLoad(p)
        \/ RateSave(p)
        \/ AdminCreate(p)
        \/ AdminUpdate(p)
        \/ AdminDelete(p)

Spec == Init /\ [][Next]_vars

\* The Access Gate: requests to the admin routes and to recordRead with any
\* token a client can present, while users log in, the User collection is
\* emptied and the regular user is promoted to admin and demoted again. No
\* one is logged in at the start.
InitGate ==
    /\ books = SeededBooks
    /\ users = SeedUsers
    /\ issued = NoneIssued
    /\ nextBookId = 3
    /\ nextUserId = 3
    /\ NoRequests
    /\ NoHistory
    /\ NoFrontend

GateArrival(p) ==
    \E t \in Tokens :
        \/ StartRead(p, 1, t)
        \/ CanCreate /\ StartAdmin(p, "create", 0, t, NoBody)
        \/ StartAdmin(p, "update", 1, t, Body(TRUE, {40}, {}, {}, {}))
        \/ StartAdmin(p, "delete", 1, t, NoBody)
        \/ StartAdmin(p, "list", 0, t, NoBody)

NextGate ==
    \/ \E p \in Pair :
          \/ nreq < MaxGateRequests /\ GateArrival(p)
          \/ protect(p)
          \/ adminOnly(p)
          \/ ReadUpdate(p)
          \/ ReadAddToSet(p)
          \/ AdminCreate(p)
          \/ AdminUpdate(p)
          \/ AdminDelete(p)
          \/ AdminList(p)
    \/ \E u \in UserIds : Login(u)
    \/ \E r \in Roles : SetRole(SeedUserId, r)
    \/ SeedDeleteUsers

SpecGate == InitGate /\ [][NextGate]_vars

\* The admin's create, update and delete with bodies that name a genre of the
\* enum ('Fantasy'), a genre outside it ('Poetry'), or an out-of-range rating,
\* or lack a required field; two requests in flight together.
AdminBodies ==
    { NoBody,
      Body(FALSE, {}, {}, {}, {}),
      Body(TRUE, {70}, {}, {}, {}),
      WithGenre(NoBody, "Fantasy"),
      WithGenre(NoBody, "Poetry") }

AdminArrival(p) ==
    \/ \E body \in AdminBodies :
          CanCreate /\ StartAdmin(p, "create", 0, generateToken(SeedAdminId), body)
    \/ \E b \in BookIds, body \in AdminBodies :
          StartAdmin(p, "update", b, generateToken(SeedAdminId), body)
    \/ \E b \in BookIds :
          StartAdmin(p, "delete", b, generateToken(SeedAdminId), NoBody)

NextAdmin ==
    \E p \in Pair :
        \/ nreq < MaxOps /\ AdminArrival(p)
        \/ protect(p)
        \/ adminOnly(p)
        \/ AdminCreate(p)
        \/ AdminUpdate(p)
        \/ AdminDelete(p)

SpecAdmin == Init /\ [][NextAdmin]_vars

\* Get-one, recordRead and recordRating for any :id a client can send (a
\* stored book, one never created, one deleted, a string that is no
\* ObjectId), while the admin deletes books; two requests in flight together.
LookupIds == {0} \cup BookIds

LookupArrival(p) ==
    \/ \E b \in LookupIds : StartGet(p, b)
    \/ \E b \in LookupIds : StartRead(p, b, generateToken(SeedUserId))
    \/ \E b \in LookupIds, r \in {RateMax, RateMax + 1} :
          StartRate(p, b, generateToken(SeedUserId), r)
    \/ \E b \in BookIds :
          StartAdmin(p, "delete", b, generateToken(SeedAdminId), NoBody)

NextLookup ==
    \E p \in Pair :
        \/ nreq < MaxOps /\ LookupArrival(p)
        \/ protect(p)
        \/ adminOnly(p)
        \/ GetBook(p)
        \/ ReadUpdate(p)
        \/ ReadAddToSet(p)
        \/ RateLoad(p)
        \/ RateSave(p)
        \/ AdminDelete(p)

SpecLookup == Init /\ [][NextLookup]_vars

\* The list query, GET /api/books, against unchanged data.

\* Two books as seed.js inserts them, both rated 4.7 (its 'Hitchhiker's
\* Guide' and 'Atomic Habits') and inserted by one insertMany at the same
\* instant, and a third, rated 4.2, created later without a publication date.
AuthorADot == <<"a", ".">>
AuthorAb == <<"A", "b">>
AuthorB == <<"b">>
SmallCatalog ==
    [b \in 1..3 |->
        IF b = 1 THEN [BookDoc(47, 2, 0) EXCEPT !.genre = "Science Fiction",
                          !.author = AuthorADot, !.publishedDate = {1979}]
        ELSE IF b = 2 THEN [BookDoc(47, 1, 0) EXCEPT !.genre = "Self-Help",
                               !.author = AuthorAb, !.publishedDate = {2018}]
        ELSE [BookDoc(42, 1, 0) EXCEPT !.createdAt = 1, !.author = AuthorB]]

\* One book more than the cap on limit, no two with the same rating or the
\* same creation time.
BigCatalog ==
    [b \in 1..(LimitCap + 1) |-> [DefaultBook EXCEPT !.rating = b - 1, !.createdAt = b]]

\* The values of the page and limit parameters: absent, decimal numbers, and
\* a string that is no number.
PageParams == {{}, {<<"1">>}, {<<"2">>}, {<<"3">>}, {<<"a", "b", "c">>}}
LimitParams == {{}, {<<"1">>}, {<<"2">>}, {<<"5", "1">>}, {<<"a", "b", "c">>}}

\* Requests that page through the whole collection, in each sort order.
PagingQueries ==
    {Query(pg, l, {}, {}, {}, {}, {}, sb, so) :
        pg \in PageParams, l \in LimitParams, sb \in {{}, {"rating"}}, so \in {{}, {"asc"}}}

\* Requests that filter, with the default page, limit and sort.
FilterQueries ==
    {Query({}, {}, g, a, m, f, t, {}, {}) :
        g \in {{}, {"Self-Help"}, {"Horror"}},
        a \in {{}, {<<".">>}, {<<"a">>}, {<<"B">>}},
        m \in {{}, {45}}, f \in {{}, {1979}}, t \in {{}, {1979}}}

Queries == PagingQueries \cup FilterQueries

\* The client keeps its filter, sort and limit and asks for one page after
\* another.
NextQueries ==
    IF pages = <<>> THEN Queries
    ELSE {[pages[1].query EXCEPT !.page = pg] : pg \in PageParams}

InitList ==
    /\ books \in {SmallCatalog, BigCatalog}
    /\ users = SeedUsers
    /\ issued = NoneIssued
    /\ nextBookId = 3
    /\ nextUserId = 3
    /\ NoRequests
    /\ NoHistory
    /\ NoFrontend

NextList ==
    \/ /\ nreq < MaxListRequests
       /\ \E q \in NextQueries : StartList(1, q)
    \/ ListFind(1)
    \/ ListCount(1)

SpecList == InitList /\ [][NextList]_vars

\* The filter panel, the search bar and the pagination bar: every reducer of
\* filterSlice, with the payloads their controls can send. HomePage is
\* mounted, so its effect has set the first timeout.
InitFront ==
    /\ books = SeededBooks
    /\ users = SeedUsers
    /\ issued = NoneIssued
    /\ nextBookId = 3
    /\ nextUserId = 3
    /\ NoRequests
    /\ NoHistory
    /\ filters = initialState
    /\ timer = {initialState}
    /\ fetching = {}
    /\ home = NoData

Texts(word) == {"", word}
SortFields == {"createdAt", "rating", "readCount", "publishedDate", "title"}
SortOrders == {"asc", "desc"}
PageNumbers == 1..3
PageSizes == {12, 24}

NextFilters ==
    \/ \E v \in Texts("dune") : Dispatch(setSearch(filters, v))
    \/ \E v \in Texts("Fantasy") : Dispatch(setGenre(filters, v))
    \/ \E v \in Texts("adams") : Dispatch(setAuthor(filters, v))
    \/ \E v \in Texts("4") : Dispatch(setMinRating(filters, v))
    \/ \E v \in SortFields : Dispatch(setSortBy(filters, v))
    \/ \E v \in SortOrders : Dispatch(setSortOrder(filters, v))
    \/ \E v \in Texts("1979-01-01") : Dispatch(setPublishedFrom(filters, v))
    \/ \E v \in Texts("1979-12-31") : Dispatch(setPublishedTo(filters, v))
    \/ \E v \in PageNumbers : Dispatch(setPage(filters, v))
    \/ \E v \in PageSizes : Dispatch(setLimit(filters, v))
    \/ Dispatch(resetFilters(filters))

SpecFilters == InitFront /\ [][NextFilters]_vars

\* HomePage while the user types a search text, picks a genre, turns the page
\* and resets the filters: the timeouts fire, the requests are sent, and their
\* responses arrive in any order or fail.
NextFetch ==
    \/ \E v \in Texts("dune") : Dispatch(setSearch(filters, v))
    \/ \E v \in Texts("Fantasy") : Dispatch(setGenre(filters, v))
    \/ \E v \in 1..2 : Dispatch(setPage(filters, v))
    \/ Dispatch(resetFilters(filters))
    \/ nreq < MaxFetches /\ FetchBooks
    \/ \E r \in fetching : FetchDone(r)
    \/ \E r \in fetching : FetchFailed(r)

SpecFetch == InitFront /\ [][NextFetch]_vars


\* Registration and the admin routes, for clients that do not hold the seeded
\* admin's credentials: they register (with an address that is taken, a new
\* one, or none; with and without a role in the body), the regular user logs
\* in, and every token handed out is used on the admin routes. Two requests
\* are in flight together.
RegisterEmails == {NoEmail, UserEmail, NewEmail}
RegisterRoles == {{}, {"user"}, {"admin"}}

\* A register may start while a fresh identifier is left for it.
CanRegister ==
    nextUserId + Cardinality({q \in Procs : InFlight(q) /\ req[q].op = "register"})
        \in UserIds

AuthArrival(p) ==
    \/ \E e \in RegisterEmails, r \in RegisterRoles :
          CanRegister /\ StartRegister(p, e, r)
    \/ \E t \in Tokens : StartAdmin(p, "delete", 1, t, NoBody)
    \/ \E t \in Tokens : StartAdmin(p, "list", 0, t, NoBody)

NextAuth ==
    \/ \E p \in Pair :
          \/ nreq < MaxOps /\ AuthArrival(p)
          \/ RegisterFindOne(p)
          \/ RegisterCreate(p)
          \/ protect(p)
          \/ adminOnly(p)
          \/ AdminDelete(p)
          \/ AdminList(p)
    \/ Login(SeedUserId)

SpecAuth == InitGate /\ [][NextAuth]_vars

\* Delete against the other operations on the same books: get-one,
\* recordRead, recordRating (with a rating the validator accepts and one it
\* rejects), the admin's update and delete, and the list query; two requests
\* in flight together.
DeleteArrival(p) ==
    \/ \E b \in DOMAIN SeededBooks : StartGet(p, b)
    \/ \E b \in DOMAIN SeededBooks : StartRead(p, b, generateToken(SeedUserId))
    \/ \E b \in DOMAIN SeededBooks, r \in {RateMax, RateMax + 1} :
          StartRate(p, b, generateToken(SeedUserId), r)
    \/ \E b \in DOMAIN SeededBooks, body \in {NoBody, WithGenre(NoBody, "Poetry")} :
          StartAdmin(p, "update", b, generateToken(SeedAdminId), body)
    \/ \E b \in DOMAIN SeededBooks :
          StartAdmin(p, "delete", b, generateToken(SeedAdminId), NoBody)
    \/ StartList(p, NoQuery)

NextDelete ==
    \E p \in Pair :
        \/ nreq < MaxOps /\ DeleteArrival(p)
        \/ protect(p)
        \/ adminOnly(p)
        \/ GetBook(p)
        \/ ReadUpdate(p)
        \/ ReadAddToSet(p)
        \/ RateLoad(p)
        \/ RateSave(p)
        \/ AdminUpdate(p)
        \/ AdminDelete(p)
        \/ ListFind(p)
        \/ ListCount(p)

SpecDelete == Init /\ [][NextDelete]_vars

\* One client that calls recordRead, waits for the answer and calls again,
\* while the follow-up update of its readBooks may fail.
NextRetry ==
    \/ /\ nreq < MaxRequests
       /\ Quiescent
       /\ \E b \in DOMAIN SeededBooks, t \in {NoToken, generateToken(SeedUserId)} :
              StartRead(1, b, t)
    \/ protect(1)
    \/ ReadUpdate(1)
    \/ ReadAddToSet(1)
    \/ ReadAddToSetFails(1)

SpecRetry == Init /\ [][NextRetry]_vars

\* Create, then get: the admin creates books with bodies that differ in what
\* they supply (an author with and without white space around it, a
\* publication date in each of its forms, engagement fields, a genre) and
\* fetches each book as soon as its create is answered.
AuthorSpaced == <<" ", "a", " ">>
PublishedDay == 1979

RoundTripBodies ==
    { NoBody,
      Body(FALSE, {}, {}, {}, {}),
      WithAuthor(NoBody, AuthorSpaced),
      WithAuthor(NoBody, AuthorAb),
      WithPublishedDate(NoBody, EmptyString),
      WithPublishedDate(NoBody, DateString("date", PublishedDay)),
      WithPublishedDate(NoBody, DateString("date-time", PublishedDay)),
      WithGenre(Body(TRUE, {40}, {7}, {3}, {}), "Fantasy") }

NextRoundTrip ==
    \E p \in Pair :
        \/ /\ nreq < MaxOps
           /\ CanCreate
           /\ \E body \in RoundTripBodies :
                  StartAdmin(p, "create", 0, generateToken(SeedAdminId), body)
        \/ nreq < MaxOps /\ StartGetCreated(p)
        \/ protect(p)
        \/ adminOnly(p)
        \/ AdminCreate(p)
        \/ GetBook(p)

SpecRoundTrip == Init /\ [][NextRoundTrip]_vars

\* ------------------------------------------------------------ rating claims

RECURSIVE SumSeq(_)
SumSeq(s) == IF s = <<>> THEN 0 ELSE Head(s) + SumSeq(Tail(s))

\* k is num / den rounded to the nearest integer (a tie may go either way).
IsNearest(k, num, den) ==
    /\ 2 * (k * den - num) <= den
    /\ 2 * (num - k * den) <= den

\* num / den rounded to the nearest integer, a tie going up (den > 0).
Nearest(num, den) ==
    CHOOSE k \in -1..(RatingMax + 1) :
        2 * k * den - den <= 2 * num /\ 2 * num < 2 * k * den + den

\* The two sequences hold the same ratings, each as many times.
SameRatings(s, t) ==
    \A v \in RateInputs :
        Cardinality({i \in DOMAIN s : s[i] = v}) = Cardinality({i \in DOMAIN t : t[i] = v})

\* C2: recordRating loses no update. Once every call has been answered, each
\* book's ratingCount is its value before the calls plus the number of calls
\* answered 200.
C2_NoLostRating ==
    Quiescent =>
        \A b \in DOMAIN books :
            books[b].ratingCount = SeededBooks[b].ratingCount + okRates[b]

\* C3: ratings r1..rn submitted one after another to an unrated book leave
\* ratingCount = n and rating = the mean of r1..rn rounded to one decimal.
C3_MeanOfAll ==
    Quiescent =>
        \A b \in DOMAIN books :
            /\ books[b].ratingCount = Len(hist[b])
            /\ hist[b] # <<>> =>
                   IsNearest(books[b].rating, SumSeq(hist[b]), Len(hist[b]))

\* C4: two books that received the same ratings one after another, in any two
\* orders, hold the same (rating, ratingCount).
C4_OrderIndependent ==
    Quiescent =>
        \A a, b \in DOMAIN books :
            SameRatings(hist[a], hist[b]) =>
                /\ books[a].rating = books[b].rating
                /\ books[a].ratingCount = books[b].ratingCount

\* C5: a successful recordRating on a book whose stored (rating, ratingCount)
\* is the pair the handler read sets ratingCount to oldCount + 1 and rating to
\* (oldRating * oldCount + r) / (oldCount + 1) rounded to one decimal, and
\* answers with that pair.
C5_RunningMean ==
    [][\A p \in Procs :
          (/\ req[p].op = "rate"
           /\ req[p].pc = "save"
           /\ req'[p].status = 200
           /\ \E d \in req[p].doc :
                 /\ d.rating = books[req[p].book].rating
                 /\ d.ratingCount = books[req[p].book].ratingCount)
          => LET b == req[p].book
                 old == books[b]
                 new == books'[b] IN
             /\ new.ratingCount = old.ratingCount + 1
             /\ new.rating = Nearest(old.rating * old.ratingCount + req[p].rating,
                                     old.ratingCount + 1)
             /\ req'[p].resp.rating = new.rating
             /\ req'[p].resp.ratingCount = new.ratingCount]_vars

\* A 1.5 submitted to a book rated 1.0 once: 1.25 is stored and answered as 1.3.
C5_Witness ==
    \E p \in Procs :
        /\ req[p].op = "rate"
        /\ req[p].status = 200
        /\ req[p].rating = 15
        /\ req[p].doc = {BookDoc(10, 1, 0)}
        /\ req[p].resp.rating = 13
        /\ req[p].resp.ratingCount = 2
        /\ books[req[p].book].rating = 13
        /\ books[req[p].book].ratingCount = 2

\* -------------------------------------------------------------- gate claims

\* C6: on the admin routes the handler runs only for a request whose token
\* verifies, whose user exists and whose role, as protect read it, is admin;
\* without a token that verifies or without the user the answer is 401, with
\* another role it is 403, and in both cases the handler has not run.
C6_AdminGate ==
    \A p \in Procs :
        req[p].op \in AdminOps =>
            /\ (req[p].ran \/ req[p].pc = "handler") =>
                   /\ jwtVerify(req[p].tok)
                   /\ ~req[p].gone
                   /\ \E u \in req[p].user :
                         u.id = req[p].tok.uid /\ u.role = "admin"
            /\ (req[p].pc = "done" /\ (~jwtVerify(req[p].tok) \/ req[p].gone \/ req[p].user = {})) =>
                   req[p].status = 401 /\ ~req[p].ran
            /\ (req[p].pc = "done" /\ \E u \in req[p].user : u.role # "admin") =>
                   req[p].status = 403 /\ ~req[p].ran

\* One admin request answered 403 without its handler, another one served.
C6_Witness ==
    \E p, q \in Procs :
        /\ req[p].op = "delete" /\ req[p].status = 403 /\ ~req[p].ran
        /\ 1 \in DOMAIN books
        /\ req[q].op \in AdminOps /\ req[q].ran /\ req[q].status \in {200, 201}

\* C7: the identity is read from the User collection on every request. A
\* request that arrives with a signed, unexpired token after its user was
\* deleted is answered 401; and whenever protect lets a request through, the
\* user it attaches has the role the store holds at that moment, whatever the
\* role was when the token was issued.
C7_FreshIdentity ==
    /\ [](\A p \in Procs : (req[p].gone /\ req[p].pc = "done") => req[p].status = 401)
    /\ [][\A p \in Procs :
             (req[p].pc = "protect" /\ req'[p].pc # "protect" /\ jwtVerify(req[p].tok)) =>
                 IF req[p].tok.uid \in DOMAIN users
                 THEN req'[p].user =
                          {[id |-> req[p].tok.uid, role |-> users[req[p].tok.uid].role]}
                 ELSE req'[p].pc = "done" /\ req'[p].status = 401]_vars

\* A token issued to a plain user: once the user is promoted its next request
\* gets past adminOnly, and once the users are deleted the request after that
\* is answered 401.
C7_Witness ==
    \E p, q \in Procs :
        /\ req[p].op \in AdminOps /\ req[p].pc = "handler"
        /\ issued[req[p].tok.uid] = "user"
        /\ req[q].tok = req[p].tok
        /\ req[q].gone /\ req[q].pc = "done" /\ req[q].status = 401

\* C8: every stored book has ratingCount >= 0, and a book whose ratingCount
\* is 0 has rating 0.
C8_RatingCountInvariant ==
    \A b \in DOMAIN books :
        /\ books[b].ratingCount >= 0
        /\ (books[b].ratingCount = 0 => books[b].rating = 0)

\* C9: readCount is never negative and no step lowers the readCount of a book
\* that stays in the collection.
C9_ReadCountMonotone ==
    [][\A b \in DOMAIN books' :
          /\ books'[b].readCount >= 0
          /\ (b \in DOMAIN books => books'[b].readCount >= books[b].readCount)]_vars

\* C10: the stored rating of every book lies between 0 and 5.
C10_RatingInRange ==
    \A b \in DOMAIN books : RatingInRange(books[b].rating)

\* -------------------------------------------------------------- list claims

\* The elements of a sequence.
Range(s) == {s[i] : i \in DOMAIN s}
NoDuplicates(s) == \A i, j \in DOMAIN s : s[i] = s[j] => i = j

\* The items of the responses rs, one page after the other.
RECURSIVE AllItems(_)
AllItems(rs) == IF rs = <<>> THEN <<>> ELSE Head(rs).items \o AllItems(Tail(rs))

\* A parameter that is a decimal number, and the page and limit the
\* specification gives a request: the number when the parameter is one, the
\* default when it is absent or no number; page at least 1, limit in 1..50.
IsNumeral(x) == \E str \in x : str # <<>> /\ \A i \in DOMAIN str : IsDigit(str[i])
NumeralOr(x, default) ==
    IF IsNumeral(x) THEN LeadingDigits(CHOOSE str \in x : TRUE, 0) ELSE default
EffectivePage(q) ==
    IF NumeralOr(q.page, DefaultPage) < 1 THEN 1 ELSE NumeralOr(q.page, DefaultPage)
EffectiveLimit(q) ==
    IF NumeralOr(q.limit, DefaultLimit) < 1 THEN 1
    ELSE IF NumeralOr(q.limit, DefaultLimit) > LimitCap THEN LimitCap
    ELSE NumeralOr(q.limit, DefaultLimit)

\* The number of items on page p of m matches, l to a page, and the number of
\* pages.
ItemsOnPage(m, p, l) ==
    LET rest == m - (p - 1) * l IN
    IF rest <= 0 THEN 0 ELSE IF rest < l THEN rest ELSE l
Ceiling(m, l) == CHOOSE k \in 0..m : k * l >= m /\ (k = 0 \/ (k - 1) * l < m)

\* C11: with the filter, sort and limit fixed and the data unchanged, pages
\* 1..totalPages together hold every matching book exactly once, and their
\* items add up to total.
C11_PaginationCoverage ==
    (/\ pages # <<>>
     /\ \A i \in DOMAIN pages :
           /\ pages[i].status = 200
           /\ pages[i].pagination.page = {i}
           /\ pages[i].pagination.totalPages = {Len(pages)})
    => /\ NoDuplicates(AllItems(pages))
       /\ Range(AllItems(pages)) = Matching(pages[1].query)
       /\ pages[1].pagination.total = {Len(AllItems(pages))}

\* C12: books with the same sort key come in ascending order of identifier,
\* so two identical requests against unchanged data return the same sequence.
C12_DeterministicOrder ==
    /\ \A i \in DOMAIN pages :
          \A k \in DOMAIN pages[i].items \ {1} :
              LET a == pages[i].items[k - 1]
                  b == pages[i].items[k] IN
              SortKey(a, pages[i].query) = SortKey(b, pages[i].query) => a < b
    /\ \A i, j \in DOMAIN pages :
          (pages[i].query = pages[j].query /\ pages[i].status = 200 /\ pages[j].status = 200)
              => pages[i].items = pages[j].items

\* C13: a list request with effective page p and effective limit L over M
\* matching books is answered 200 with min(L, max(0, M - (p-1)L)) items,
\* total = M and totalPages = ceil(M / L); beyond the last page the list is
\* empty.
C13_ResultShape ==
    \A i \in DOMAIN pages :
        LET r == pages[i]
            p == EffectivePage(r.query)
            l == EffectiveLimit(r.query)
            m == Cardinality(Matching(r.query)) IN
        /\ r.status = 200
        /\ Len(r.items) = ItemsOnPage(m, p, l)
        /\ r.pagination.total = {m}
        /\ r.pagination.totalPages = {Ceiling(m, l)}
        /\ (p > Ceiling(m, l) => r.items = <<>>)

\* str contains sub, letters compared without case.
Contains(str, sub) ==
    \E off \in 0..(Len(str) - Len(sub)) :
        \A i \in DOMAIN sub : Lower(sub[i]) = Lower(str[off + i])

\* The predicates of the filters a request applies.
Satisfies(doc, q) ==
    /\ \A g \in q.genre : doc.genre = g
    /\ \A a \in q.author : Contains(doc.author, a)
    /\ \A m \in q.minRating : doc.rating >= m
    /\ \A f \in q.publishedFrom : \E d \in doc.publishedDate : d >= f
    /\ \A t \in q.publishedTo : \E d \in doc.publishedDate : d <= t

\* C14: the books a list request returns over all its pages are exactly the
\* stored books that satisfy every filter applied (here: requests whose first
\* page holds every match).
C14_FilterExact ==
    \A i \in DOMAIN pages :
        LET r == pages[i] IN
        (/\ r.status = 200
         /\ r.pagination.page = {1}
         /\ \E t \in r.pagination.total, l \in r.pagination.limit : t <= l)
        => Range(r.items) = {b \in DOMAIN books : Satisfies(books[b], r.query)}

\* C15: a limit above 50 is answered 200 with limit 50, no response holds
\* more than 50 items, an omitted limit is 12 and an omitted page is 1 (the
\* other parameter being absent or a number).
C15_LimitClamped ==
    \A i \in DOMAIN pages :
        LET r == pages[i]
            pageFine == r.query.page = {} \/ IsNumeral(r.query.page)
            limitFine == r.query.limit = {} \/ IsNumeral(r.query.limit) IN
        /\ Len(r.items) <= LimitCap
        /\ (pageFine /\ IsNumeral(r.query.limit) /\ NumeralOr(r.query.limit, 0) > LimitCap)
               => (r.status = 200 /\ r.pagination.limit = {LimitCap})
        /\ (pageFine /\ r.query.limit = {})
               => (r.status = 200 /\ r.pagination.limit = {DefaultLimit})
        /\ (limitFine /\ r.query.page = {})
               => (r.status = 200 /\ r.pagination.page = {DefaultPage})

\* C16: a request whose page or limit is no number is answered 200 with the
\* page of the defaults: page 1 for a bad page, limit 12 for a bad limit.
C16_DefaultsOnBadNumber ==
    \A i \in DOMAIN pages :
        LET r == pages[i]
            badPage == r.query.page # {} /\ ~IsNumeral(r.query.page)
            badLimit == r.query.limit # {} /\ ~IsNumeral(r.query.limit)
            m == Cardinality(Matching(r.query)) IN
        (badPage \/ badLimit) =>
            /\ r.status = 200
            /\ r.pagination.page = {EffectivePage(r.query)}
            /\ r.pagination.limit = {EffectiveLimit(r.query)}
            /\ r.pagination.total = {m}
            /\ Len(r.items) = ItemsOnPage(m, EffectivePage(r.query), EffectiveLimit(r.query))

\* ------------------------------------------------------------- admin claims

\* C17: every stored book has a genre of the enumeration, and an admin create
\* or update whose genre is outside it is rejected and leaves the collection
\* as it was: no book is created, the book keeps its genre.
C17_GenreInvariant ==
    /\ [](\A b \in DOMAIN books : books[b].genre \in Genres)
    /\ [][\A p \in Procs :
             (/\ req[p].op \in {"create", "update"}
              /\ req[p].pc = "handler"
              /\ req'[p].pc = "done"
              /\ req[p].body.genre \notin Genres)
             => (books' = books /\ req'[p].status >= 400)]_vars

\* A book was given the genre 'Fantasy'; an update to 'Poetry' was then
\* rejected and the book is still 'Fantasy'.
C17_Witness ==
    \E p \in Procs :
        /\ req[p].op = "update" /\ req[p].pc = "done" /\ req[p].ran
        /\ req[p].body.genre = "Poetry"
        /\ req[p].status >= 400
        /\ req[p].book \in DOMAIN books
        /\ books[req[p].book].genre = "Fantasy"

\* C18: an admin create or update that fails validation (a required field
\* missing, a genre outside the enumeration, a field out of range) is
\* answered with a 400-class status.
C18_ValidationIs400 ==
    \A p \in Procs :
        (/\ req[p].op \in {"create", "update"}
         /\ req[p].pc = "done"
         /\ req[p].ran
         /\ \/ ~req[p].body.valid
            \/ req[p].body.genre \notin Genres
            \/ \E v \in req[p].body.rating : ~RatingInRange(v))
        => (req[p].status >= 400 /\ req[p].status < 500)

\* C19: recordRating by an authenticated user with a rating below 1 or above
\* 5 is answered 400 and leaves the collection as it was.
C19_BadRatingRejected ==
    /\ [](\A p \in Procs :
             (/\ req[p].op = "rate" /\ req[p].pc = "done" /\ req[p].user # {}
              /\ (req[p].rating < RateMin \/ req[p].rating > RateMax))
             => req[p].status = 400)
    /\ [][\A p \in Procs :
             (/\ req[p].op = "rate" /\ req[p].pc = "handler" /\ req'[p].pc # "handler"
              /\ (req[p].rating < RateMin \/ req[p].rating > RateMax))
             => (books' = books /\ req'[p].pc = "done" /\ req'[p].status = 400)]_vars

\* A 5.1 and a 0 for the seeded book, both answered 400, the book as seeded.
C19_Witness ==
    \E p, q \in Procs :
        /\ req[p].op = "rate" /\ req[p].rating = 51 /\ req[p].status = 400
        /\ req[q].op = "rate" /\ req[q].rating = 0 /\ req[q].status = 400
        /\ req[p].book = 1 /\ req[q].book = 1
        /\ books[1] = SeedBook

\* ------------------------------------------------------------ lookup claims

\* C20: get-one, recordRead and recordRating (with a valid rating) for an id
\* that identifies no stored book are answered 404 and change nothing stored.
C20_MissingBookIs404 ==
    [][\A p \in Procs :
          (/\ req[p].op \in {"get", "read", "rate"}
           /\ req[p].pc = "handler"
           /\ req'[p].pc # "handler"
           /\ req[p].book \notin DOMAIN books
           /\ (req[p].op = "rate" => (RateMin <= req[p].rating /\ req[p].rating <= RateMax)))
          => (/\ req'[p].pc = "done"
              /\ req'[p].status = 404
              /\ books' = books
              /\ users' = users)]_vars

\* ----------------------------------------------------------- frontend claims

\* The states one of the nine reducers that change which books are shown, or
\* their order, can leave from state f.
AfterShownChange(f) ==
    {setSearch(f, v) : v \in Texts("dune")} \cup {setGenre(f, v) : v \in Texts("Fantasy")}
    \cup {setAuthor(f, v) : v \in Texts("adams")} \cup {setMinRating(f, v) : v \in Texts("4")}
    \cup {setSortBy(f, v) : v \in SortFields} \cup {setSortOrder(f, v) : v \in SortOrders}
    \cup {setPublishedFrom(f, v) : v \in Texts("1979-01-01")}
    \cup {setPublishedTo(f, v) : v \in Texts("1979-12-31")}
    \cup {setLimit(f, v) : v \in PageSizes}

\* C29: every action that changes which books are shown or their order
\* (setSearch, setGenre, setAuthor, setMinRating, setSortBy, setSortOrder,
\* setPublishedFrom, setPublishedTo, setLimit) leaves page = 1; only setPage
\* makes page differ from 1; resetFilters returns the initial state.
C29_PageResetOnChange ==
    [][/\ filters' \in AfterShownChange(filters) => filters'.page = 1
       /\ filters'.page # 1 /\ filters'.page # filters.page =>
              \E v \in PageNumbers : filters' = setPage(filters, v)
       /\ resetFilters(filters) = initialState]_vars

\* C30: once the user has changed the filters several times and every GET
\* /books request HomePage sent has been answered, in any order, the books
\* shown are the response to the request built from the latest filter state.
C30_LatestResponseShown ==
    (nreq >= 1 /\ timer = {} /\ fetching = {} /\ home.error = "") =>
        home.data = {Params(filters)}

\* ----------------------------------------------------------- register claims

\* The register request in slot p has been answered with a token.
Registered(p) == req[p].op = "register" /\ req[p].pc = "done" /\ req[p].status = 201

\* C23: a register request whose e-mail belongs to a stored user is answered
\* 409 and creates no user.
C23_DuplicateEmailIs409 ==
    [][\A p \in Procs :
          (/\ req[p].op = "register"
           /\ req[p].pc # "done"
           /\ req'[p].pc = "done"
           /\ \E u \in DOMAIN users : users[u].email = req[p].email)
          => (req'[p].status = 409 /\ users' = users)]_vars

\* C24: whatever the interleaving of the register requests, no two stored
\* users have the same e-mail, and of two requests with the same e-mail at
\* most one is answered with a token.
C24_UniqueEmail ==
    /\ \A u, v \in DOMAIN users : users[u].email = users[v].email => u = v
    /\ \A p, q \in Procs :
          (Registered(p) /\ Registered(q) /\ req[p].email = req[q].email) => p = q

\* Two requests with the same new e-mail both passed the existence check
\* before either created: one got the token, the insert of the other failed.
C24_Witness ==
    \E p, q \in Procs :
        /\ Registered(p)
        /\ req[q].op = "register" /\ req[q].pc = "done" /\ req[q].status = 500
        /\ req[p].email = req[q].email
        /\ Cardinality({u \in DOMAIN users : users[u].email = req[p].email}) = 1

\* C25: no response carries internal error detail: the message of a response
\* is never the message of the exception the handler caught.
C25_NoInternalDetail ==
    \A p \in Procs : req[p].pc = "done" => req[p].message # ErrMessage

\* C26: from a store whose only admin is the seeded one, no request of a
\* client that holds neither that admin's credentials nor its token makes an
\* admin-only operation run: one that ran was sent with the seeded admin's
\* token.
C26_NoEscalation ==
    \A p \in Procs : req[p].ran => req[p].tok = generateToken(SeedAdminId)

\* ------------------------------------------------------------- delete claims

\* The request in slot p passed the Access Gate and its route's validators.
Passed(p) ==
    /\ req[p].status \notin {401, 403}
    /\ req[p].op = "rate" => ValidRating(req[p].rating)
    /\ req[p].op = "update" => (req[p].body.valid /\ SchemaAccepts(req[p].body))

C27_ErrorLeavesReadCount ==
    (req[1].op = "read" /\ req[1].pc = "done" /\ req[1].status >= 400 /\ req[1].book \in DOMAIN books)
        => books[req[1].book].readCount = SeededBooks[req[1].book].readCount + okReads[req[1].book]

\* C28: a book whose DELETE was answered 200 is never stored again, whatever
\* was in flight for it when it was deleted.
C28_DeleteIsFinal ==
    [][\A b \in deleted : b \notin DOMAIN books /\ b \notin DOMAIN books']_vars

\* A recordRating had loaded the book, the delete completed, and the save
\* then ended the request with an error; the book is not stored.
C28_Witness ==
    \E p \in Procs :
        /\ req[p].op = "rate"
        /\ req[p].pc = "done"
        /\ req[p].doc # {}
        /\ req[p].status = 500
        /\ req[p].book \in deleted
        /\ req[p].book \notin req[p].late
        /\ req[p].book \notin DOMAIN books

\* --------------------------------------------------------- round-trip claims

\* The get of a book the client has just created has been answered 200.
Fetched(p) ==
    /\ req[p].op = "get"
    /\ req[p].pc = "done"
    /\ req[p].status = 200
    /\ req[p].body.valid

\* t is s without the white space around it.
IsTrimOf(t, s) ==
    /\ t # <<>> => (Head(t) # " " /\ t[Len(t)] # " ")
    /\ \E i, j \in 0..Len(s) :
          /\ i + Len(t) + j = Len(s)
          /\ SubSeq(s, i + 1, i + Len(t)) = t
          /\ \A k \in (1..i) \cup ((Len(s) - j + 1)..Len(s)) : s[k] = " "

\* The engagement fields and the genre the body supplied are the ones returned.
SameNumbersAndGenre(p) ==
    /\ req[p].resp.genre = req[p].body.genre
    /\ \A v \in req[p].body.rating : req[p].resp.rating = v
    /\ \A v \in req[p].body.ratingCount : req[p].resp.ratingCount = v
    /\ \A v \in req[p].body.readCount : req[p].resp.readCount = v

\* C22 as stated: fetching a book right after its create returns, for every
\* field the body supplied, the value supplied.
C22_RoundTrip ==
    \A p \in Procs :
        Fetched(p) =>
            /\ SameNumbersAndGenre(p)
            /\ \A v \in req[p].body.author : req[p].resp.author = v
            /\ \A v \in req[p].body.publishedDate : req[p].resp.publishedDate = {v}

\* C22, amended: fetching a book right after its create returns, for every
\* field the body supplied, the supplied value as the validators and the
\* schema normalise it: numbers and the genre as supplied, the author without
\* the white space around it, the publication date as the ISO date-time of
\* the same day, or none when the empty string was supplied.
C22_RoundTripNormalised ==
    \A p \in Procs :
        Fetched(p) =>
            /\ SameNumbersAndGenre(p)
            /\ \A v \in req[p].body.author : IsTrimOf(req[p].resp.author, v)
            /\ \A v \in req[p].body.publishedDate :
                  IF v.kind = "empty" THEN req[p].resp.publishedDate = {}
                  ELSE req[p].resp.publishedDate = {DateString("date-time", v.day)}

\* A book created with an author that has white space around it was fetched.
C22_Witness ==
    \E p \in Procs :
        /\ Fetched(p)
        /\ req[p].body.author = {AuthorSpaced}
        /\ req[p].resp.author = AuthorA

====
